---- MODULE Spec2Model ----
(***************************************************************************)
(* FluentStore (disnake.ext.fluent): the localization store, its two       *)
(* caches, and the directory discovery it is loaded from.                  *)
(*                                                                         *)
(* Strings are sequences of tokens.  A token is a run of characters that   *)
(* is never split here; ":" and "/" are tokens of their own, so that       *)
(* concatenation (the cache key), joining and splitting of paths are       *)
(* computed on the characters that matter.  No token is a concatenation of *)
(* other tokens, so two strings are equal exactly when their token         *)
(* sequences are.  The empty string is << >>.                              *)
(***************************************************************************)
EXTENDS Naturals, Sequences, FiniteSets, TLC

VARIABLES strict, cache_by_default, loader, langs, localizators,
          localization_cache, disnake_localization_cache, last, first, calls, loads

vars == <<strict, cache_by_default, loader, langs, localizators,
          localization_cache, disnake_localization_cache, last, first, calls, loads>>

\* Number of get, l10n and reload calls made on one store in a behaviour.
MaxCalls == 2
\* Number of load calls made on one store in a behaviour.
MaxLoads == 2

---------------------------------------------------------------------------
(* Strings and paths                                                       *)

S(t) == <<t>>

\* The empty string.
Empty == << >>

RECURSIVE Join(_, _)
\* sep.join(parts)
Join(parts, sep) ==
    IF parts = << >> THEN << >>
    ELSE IF Len(parts) = 1 THEN parts[1]
    ELSE parts[1] \o sep \o Join(Tail(parts), sep)

RECURSIVE SplitAcc(_, _, _)
SplitAcc(s, tok, cur) ==
    IF s = << >> THEN <<cur>>
    ELSE IF s[1] = tok THEN <<cur>> \o SplitAcc(Tail(s), tok, << >>)
    ELSE SplitAcc(Tail(s), tok, Append(cur, s[1]))

\* s.split(tok)
Split(s, tok) == SplitAcc(s, tok, << >>)

RECURSIVE Replace(_, _, _)
\* s.replace(tok, repl)
Replace(s, tok, repl) ==
    IF s = << >> THEN << >>
    ELSE (IF s[1] = tok THEN repl ELSE <<s[1]>>) \o Replace(Tail(s), tok, repl)

\* str(Path(*parts)): the components joined by "/"; Path() is ".".
StrOfPath(parts) == IF parts = << >> THEN S(".") ELSE Join(parts, S("/"))

\* Path(s).parts for a relative path string: empty components are dropped.
PartsOfStr(s) == SelectSeq(Split(s, "/"), LAMBDA c : c # << >>)

\* parts[n:]
DropParts(parts, n) == SubSeq(parts, n + 1, Len(parts))

\* All orders in which a finite set can be listed.
ListingsOf(set) ==
    {q \in [1 .. Cardinality(set) -> set] :
        \A i, j \in 1 .. Cardinality(set) : i # j => q[i] # q[j]}

Range(q) == {q[i] : i \in DOMAIN q}

---------------------------------------------------------------------------
(* Message patterns and interpolation arguments                            *)

Lit(t) == [kind |-> "lit", text |-> t]
Var(n) == [kind |-> "var", text |-> n]

\* values = None
NoneValues == [isNone |-> TRUE, items |-> << >>]
\* values = {"name": "Pat"}
PatValues == [isNone |-> FALSE, items |-> <<[k |-> "name", v |-> S("Pat")]>>]

Values == {NoneValues, PatValues}

RECURSIVE ItemsRepr(_)
ItemsRepr(items) ==
    IF items = << >> THEN << >>
    ELSE <<"'" \o items[1].k \o "'", ":", " ", "'">> \o items[1].v \o S("'")
         \o (IF Len(items) > 1 THEN S(", ") ELSE << >>)
         \o ItemsRepr(Tail(items))

\* str(values)
StrOfValues(values) ==
    IF values.isNone THEN S("None")
    ELSE S("{") \o ItemsRepr(values.items) \o S("}")

\* values or {}
ValuesOrEmpty(values) == values.items

\* The value of $name among the arguments; Fluent renders a missing argument
\* as the reference itself.
ArgValue(args, name) ==
    IF \E i \in DOMAIN args : args[i].k = name
    THEN args[CHOOSE i \in DOMAIN args : args[i].k = name].v
    ELSE S("{$" \o name \o "}")

RECURSIVE FormatPattern(_, _)
\* bundle.format_pattern(msg.value, args)
FormatPattern(pattern, args) ==
    IF pattern = << >> THEN << >>
    ELSE (IF pattern[1].kind = "lit" THEN S(pattern[1].text)
          ELSE ArgValue(args, pattern[1].text))
         \o FormatPattern(Tail(pattern), args)

---------------------------------------------------------------------------
(* The file system the store is loaded from.  A path is the sequence of   *)
(* its components (Path.parts), each component a string.                   *)
(*                                                                         *)
(*   locale/            en-US/main.ftl  greet same empty   en-US/notes.txt *)
(*                      fr/main.ftl     same                               *)
(*   l10n/              en-US/main.ftl  greet late empty                   *)
(*                      b:fr/           (no resource file)                 *)
(*   example/locale/    en-US/main.ftl  greet                              *)
(*                      fr/main.ftl     same                               *)
(*   void/              (no subdirectory)                                  *)

P1(a) == <<S(a)>>
P2(a, b) == <<S(a), S(b)>>
P3(a, b, c) == <<S(a), S(b), S(c)>>

MainFtl == <<"main", ".ftl">>
NotesTxt == <<"notes", ".txt">>
BFr == <<"b", ":", "fr">>

Dirs ==
    { P1("locale"), P2("locale", "en-US"), P2("locale", "fr"),
      P1("l10n"), P2("l10n", "en-US"), <<S("l10n"), BFr>>,
      P1("example"), P2("example", "locale"),
      P3("example", "locale", "en-US"), P3("example", "locale", "fr"),
      P1("void") }

\* greet = Hello, { $name }!
HelloPattern == <<Lit("Hello, "), Var("name"), Lit("!")>>
\* greet = Hi, { $name }!
HiPattern == <<Lit("Hi, "), Var("name"), Lit("!")>>

\* The messages of each file: message id -> pattern.  "same" renders as its
\* own id; "empty" in locale/ renders as the empty string ({ "" }).
Files ==
    (Append(P2("locale", "en-US"), MainFtl) :>
        [greet |-> HelloPattern, same |-> <<Lit("same")>>, empty |-> << >>])
    @@ (Append(P2("locale", "en-US"), NotesTxt) :> [notes |-> <<Lit("x")>>])
    @@ (Append(P2("locale", "fr"), MainFtl) :> [same |-> <<Lit("pareil")>>])
    @@ (Append(P2("l10n", "en-US"), MainFtl) :>
        [greet |-> HiPattern, late |-> <<Lit("Late")>>, empty |-> <<Lit("now")>>])
    @@ (Append(P3("example", "locale", "en-US"), MainFtl) :> [greet |-> HelloPattern])
    @@ (Append(P3("example", "locale", "fr"), MainFtl) :> [same |-> <<Lit("pareil")>>])

\* Path.is_dir()
IsDir(path) == path \in Dirs

\* os.path.isfile(str)
IsFile(str) == PartsOfStr(str) \in DOMAIN Files

\* Path.iterdir()
Iterdir(path) ==
    {p \in Dirs \cup DOMAIN Files :
        Len(p) = Len(path) + 1 /\ SubSeq(p, 1, Len(path)) = path}

\* Path.glob("**/*.ftl")
GlobFtl(path) ==
    {p \in DOMAIN Files :
        /\ Len(p) > Len(path)
        /\ SubSeq(p, 1, Len(path)) = path
        /\ p[Len(p)][Len(p[Len(p)])] = ".ftl"}

\* The paths the store is asked to load: three locale roots, a directory
\* without subdirectories, a path that does not exist and a path of a file.
LoadPaths ==
    { P1("locale"), P1("l10n"), P2("example", "locale"), P1("void"),
      P1("missing"), Append(P2("locale", "en-US"), MainFtl) }

---------------------------------------------------------------------------
(* utils.py                                                                *)

\* search_languages: Path(*dir_.parts[1:]) for each subdirectory, as a set;
\* the order of the list is the order of iterdir(), chosen in load.
search_languages(path) ==
    {DropParts(d, 1) : d \in {c \in Iterdir(path) : IsDir(c)}}

\* search_ftl_files: str(Path(*file.parts[2:])) for each file of the glob.
\* The list is only iterated to open the files, so the set stands for it.
search_ftl_files(path) ==
    {StrOfPath(DropParts(f, 2)) : f \in GlobFtl(path)}

---------------------------------------------------------------------------
(* fluent.runtime, as the store uses it                                    *)

\* A dict: a function; d[k] = v is Put, and a missing key reads as None.
EmptyDict == << >>
Put(d, k, v) == (k :> v) @@ d

\* FluentResourceLoader(str(path) + "/{locale}")
FluentResourceLoader(root) == [isNone |-> FALSE, root |-> root]
\* self._loader = None
NoLoader == [isNone |-> TRUE, root |-> Empty]

\* FluentLocalization(locales, resource_ids, resource_loader)
FluentLocalizator(locales, resources, ldr) ==
    [locales |-> locales, resource_ids |-> resources, resource_loader |-> ldr]

\* The resource files the loader finds for one locale of the chain:
\* os.path.join(root, resource_id) with "{locale}" replaced, kept if a file.
ResourceFiles(localizator, locale) ==
    {PartsOfStr(s) :
        s \in {q \in {Replace(localizator.resource_loader.root \o S("/") \o rid,
                              "{locale}", locale) :
                          rid \in localizator.resource_ids} : IsFile(q)}}

\* bundle.has_message(msg_id): message ids are single identifiers.
HasMessage(file, key) == Len(key) = 1 /\ key[1] \in DOMAIN Files[file]

RECURSIVE FormatFrom(_, _, _, _)
FormatFrom(localizator, i, key, args) ==
    IF i > Len(localizator.locales) THEN key
    ELSE LET having == {f \in ResourceFiles(localizator, localizator.locales[i]) :
                            HasMessage(f, key)}
         IN  IF having # {}
             THEN FormatPattern(Files[CHOOSE f \in having : TRUE][key[1]], args)
             ELSE FormatFrom(localizator, i + 1, key, args)

\* localizator.format_value(key, values): the first bundle of the fallback
\* chain that has the message renders it; the key itself when none has.
format_value(localizator, key, args) == FormatFrom(localizator, 1, key, args)

---------------------------------------------------------------------------
(* FluentStore                                                             *)

default_language == S("en-US")
default_message == S("<untranslated>")

\* Mutant of EffectiveCache: the cache argument is ignored.
EffectiveCacheDefault(cache) == cache_by_default

\* cache = cache if cache is not None else self._cache_by_default
EffectiveCache(cache) ==
    IF cache # "None" THEN cache = "True" ELSE cache_by_default

\* cache_key = key + ":" + str(locale) + ":" + str(values)
CacheKey(key, locale, values) ==
    key \o S(":") \o locale \o S(":") \o StrOfValues(values)

\* Mutant of CacheHit: the string cache is never consulted.
CacheHitNever(c, cache_key) == FALSE

\* if cached := self._localization_cache.get(cache_key): an entry that is
\* missing or is the empty string is no hit.
CacheHit(c, cache_key) == cache_key \in DOMAIN c /\ c[cache_key] # Empty

\* if not localizator
NoLocalizator(locale) == locale \notin DOMAIN localizators

\* Mutant of WasFound: every rendering counts as found.
WasFoundAlways(localized, key) == TRUE

\* Mutant of WasFound: a rendering counts as found when it is not empty.
WasFoundNonEmpty(localized, key) == localized # Empty

\* if localized != key
WasFound(localized, key) == localized # key

\* Mutant of RaisesOnMissingKey: the strict flag is ignored.
RaisesOnMissingKeyNever == FALSE

\* if self._strict: raise LocalizationKeyError
RaisesOnMissingKey == strict

Result(outcome, exc, value, c, branch, formats, warned) ==
    [outcome |-> outcome, exc |-> exc, value |-> value, cache |-> c,
     branch |-> branch, formats |-> formats, warned |-> warned]

\* l10n below the not-initialized check, on string cache c: what it returns
\* or raises, the string cache after it, the branch it took, the number of
\* format_value calls and whether it warned.
l10n(c, key, locale, values, cache) ==
    LET on == EffectiveCache(cache)
        cache_key == CacheKey(key, locale, values)
    IN  IF on /\ CacheHit(c, cache_key)
        THEN Result("return", "", c[cache_key], c, "cached", 0, FALSE)
        ELSE IF NoLocalizator(locale)
        THEN Result("return", "", default_message, c, "no_localizator", 0, TRUE)
        ELSE LET localized == format_value(localizators[locale], key,
                                           ValuesOrEmpty(values))
             IN  IF WasFound(localized, key)
                 THEN Result("return", "", localized,
                             IF on THEN Put(c, cache_key, localized) ELSE c,
                             "found", 1, FALSE)
                 ELSE IF RaisesOnMissingKey
                 THEN Result("raise", "LocalizationKeyError", Empty, c,
                             "not_found", 1, FALSE)
                 ELSE Result("return", "", default_message, c,
                             "not_found", 1, TRUE)

\* The first value an l10n call with caching enabled returned for its
\* arguments (history, kept for the idempotence property).
NoteFirst(f, key, locale, values, cache, r) ==
    IF EffectiveCache(cache) /\ r.outcome = "return"
       /\ <<key, locale, values>> \notin DOMAIN f
    THEN Put(f, <<key, locale, values>>, [value |-> r.value, branch |-> r.branch])
    ELSE f

\* Mutant of LoopDone: the loop stops one language short.
LoopDoneEarly(i) == i >= Len(langs)

\* for lang in self._langs: the loop has gone through every language.
LoopDone(i) == i > Len(langs)

RECURSIVE GetLoop(_, _, _)
\* for lang in self._langs: localizations[str(lang)] = self.l10n(key, str(lang))
GetLoop(key, i, acc) ==
    IF LoopDone(i) \/ acc.outcome = "raise" THEN acc
    ELSE LET lang == StrOfPath(langs[i])
             r == l10n(acc.cache, key, lang, NoneValues, "None")
         IN  GetLoop(key, i + 1,
                [outcome |-> r.outcome, exc |-> r.exc, cache |-> r.cache,
                 localizations |-> IF r.outcome = "return"
                                   THEN Put(acc.localizations, lang, r.value)
                                   ELSE acc.localizations,
                 formats |-> acc.formats + r.formats,
                 warned |-> acc.warned \/ r.warned,
                 first |-> NoteFirst(acc.first, key, lang, NoneValues, "None", r)])

\* Mutant of DisnakeCacheHit: the all-locales cache is never consulted.
DisnakeCacheHitNever(d, key) == FALSE

\* localizations = self._disnake_localization_cache.get(key);
\* if not localizations: None and the empty dict both count as a miss.
DisnakeCacheHit(d, key) == key \in DOMAIN d /\ d[key] # EmptyDict

---------------------------------------------------------------------------
(* The calls made on the store                                             *)

\* Message keys asked for: three ids of the resource files, one id that only
\* l10n/ defines, and a key that holds a ":".
Keys == {S("greet"), S("same"), S("empty"), S("late"), <<"greet", ":", "b">>}

\* Locales asked for: the names of the locale directories.
Locales == {S("en-US"), S("fr"), BFr}

\* The arguments given with a key: only greet takes one.
ValuesFor(key) == IF key = S("greet") THEN Values ELSE {NoneValues}

\* The cache argument of l10n: omitted (None), True or False.
CacheArgs == {"None", "True", "False"}

\* Whether the call returned None: load does; l10n returns a str; get returns
\* the dict it found in the all-locales cache or the one it has just built.
ReturnsNone(op, r) == op = "load" /\ r.outcome = "return"

\* What the last call was and what it did.
Obs(op, path, key, locale, values, cache, r, localizations) ==
    [op |-> op, path |-> path, key |-> key, locale |-> locale,
     values |-> values, cache |-> cache,
     outcome |-> r.outcome, exc |-> r.exc, value |-> r.value,
     branch |-> r.branch, formats |-> r.formats, warned |-> r.warned,
     localizations |-> localizations, none |-> ReturnsNone(op, r)]

NotInitialized(c) ==
    Result("raise", "RuntimeError", Empty, c, "not_initialized", 0, FALSE)

Init ==
    /\ strict \in BOOLEAN
    /\ cache_by_default \in BOOLEAN
    /\ loader = NoLoader
    /\ langs = << >>
    /\ localizators = EmptyDict
    /\ localization_cache = EmptyDict
    /\ disnake_localization_cache = EmptyDict
    /\ first = EmptyDict
    /\ calls = 0
    /\ loads = 0
    /\ last = Obs("init", << >>, Empty, Empty, NoneValues, "None",
                  Result("none", "", Empty, EmptyDict, "", 0, FALSE), EmptyDict)

\* Mutant of Uninitialized: the not-initialized check is left out.
UninitializedNever == FALSE

\* if not self._loader
Uninitialized == loader.isNone

\* FluentStore.l10n(key, locale, values, cache=cache)
L10nCall(key, locale, values, cache) ==
    /\ calls < MaxCalls
    /\ calls' = calls + 1
    /\ UNCHANGED loads
    /\ LET r == IF Uninitialized THEN NotInitialized(localization_cache)
                ELSE l10n(localization_cache, key, locale, values, cache)
       IN  /\ localization_cache' = r.cache
           /\ first' = IF Uninitialized THEN first
                       ELSE NoteFirst(first, key, locale, values, cache, r)
           /\ last' = Obs("l10n", << >>, key, locale, values, cache, r, EmptyDict)
    /\ UNCHANGED <<strict, cache_by_default, loader, langs, localizators,
                   disnake_localization_cache>>

\* The body of get below the not-initialized check: the cached mapping, or
\* the loop over the languages and the store into the all-locales cache.
GetBody(key) ==
    IF DisnakeCacheHit(disnake_localization_cache, key)
    THEN [outcome |-> "return", exc |-> "", cache |-> localization_cache,
          localizations |-> disnake_localization_cache[key],
          formats |-> 0, warned |-> FALSE, first |-> first, branch |-> "cached"]
    ELSE [branch |-> "computed"] @@
         GetLoop(key, 1,
            [outcome |-> "return", exc |-> "", cache |-> localization_cache,
             localizations |-> EmptyDict, formats |-> 0, warned |-> FALSE,
             first |-> first])

\* Mutant of StoresMapping: the mapping built so far is stored also when the
\* loop was left by an exception.
StoresMappingAlways(g) == g.branch = "computed"

\* self._disnake_localization_cache[key] = localizations: reached after a
\* cache miss when the loop has ended without an exception.
StoresMapping(g) == g.outcome = "return" /\ g.branch = "computed"

\* FluentStore.get(key)
GetCall(key) ==
    /\ calls < MaxCalls
    /\ calls' = calls + 1
    /\ UNCHANGED loads
    /\ IF Uninitialized
       THEN /\ last' = Obs("get", << >>, key, Empty, NoneValues, "None",
                           NotInitialized(localization_cache), EmptyDict)
            /\ UNCHANGED <<localization_cache, disnake_localization_cache, first>>
       ELSE LET g == GetBody(key)
            IN  /\ localization_cache' = g.cache
                /\ first' = g.first
                /\ disnake_localization_cache' =
                      IF StoresMapping(g)
                      THEN Put(disnake_localization_cache, key, g.localizations)
                      ELSE disnake_localization_cache
                /\ last' = Obs("get", << >>, key, Empty, NoneValues, "None",
                               Result(g.outcome, g.exc, Empty, g.cache, g.branch,
                                      g.formats, g.warned),
                               IF g.outcome = "return" THEN g.localizations
                               ELSE EmptyDict)
    /\ UNCHANGED <<strict, cache_by_default, loader, langs, localizators>>

\* Mutant of LoadRaises: the check is path.exists(), so a file passes.
LoadRaisesIfMissing(path) == path \notin Dirs \cup DOMAIN Files

\* if not path.is_dir(): raise RuntimeError (search_languages and
\* search_ftl_files repeat the same check on the same path).
LoadRaises(path) == ~IsDir(path)

\* Mutant of Construct: the formatters are collected in a new dict, so the
\* ones of an earlier load are dropped.
ConstructAnew(d, order, resources, ldr) ==
    [l \in {StrOfPath(order[i]) : i \in DOMAIN order} |->
        FluentLocalizator(<<l, default_language>>, resources, ldr)]

RECURSIVE Construct(_, _, _, _)
\* for lang in self._langs: self._localizators[str(lang)] = FluentLocalizator(...)
Construct(d, order, resources, ldr) ==
    IF order = << >> THEN d
    ELSE Construct(Put(d, StrOfPath(order[1]),
                       FluentLocalizator(<<StrOfPath(order[1]), default_language>>,
                                         resources, ldr)),
                   Tail(order), resources, ldr)

\* FluentStore.load(path); order is the order iterdir() lists the languages in.
Load(path, order) ==
    /\ loads < MaxLoads
    /\ loads' = loads + 1
    /\ UNCHANGED calls
    /\ IF LoadRaises(path)
       THEN /\ last' = Obs("load", path, Empty, Empty, NoneValues, "None",
                           Result("raise", "RuntimeError", Empty, EmptyDict,
                                  "invalid_path", 0, FALSE), EmptyDict)
            /\ UNCHANGED <<loader, langs, localizators>>
       ELSE /\ langs' = order
            /\ loader' = FluentResourceLoader(StrOfPath(path) \o <<"/", "{locale}">>)
            /\ localizators' = Construct(localizators, order,
                                         search_ftl_files(path), loader')
            /\ last' = Obs("load", path, Empty, Empty, NoneValues, "None",
                           Result("return", "", Empty, EmptyDict, "loaded", 0, FALSE),
                           EmptyDict)
    /\ UNCHANGED <<strict, cache_by_default, localization_cache,
                   disnake_localization_cache, first>>

\* Mutant of Reload: the localizations are cleared before the error is raised.
ReloadClearing ==
    /\ calls < MaxCalls
    /\ calls' = calls + 1
    /\ UNCHANGED loads
    /\ last' = Obs("reload", << >>, Empty, Empty, NoneValues, "None",
                   Result("raise", "NotImplementedError", Empty, EmptyDict,
                          "not_implemented", 0, FALSE), EmptyDict)
    /\ localization_cache' = EmptyDict
    /\ disnake_localization_cache' = EmptyDict
    /\ UNCHANGED <<strict, cache_by_default, loader, langs, localizators, first>>

\* Mutant of Reload: the store goes back to the unloaded state.
ReloadUnloading ==
    /\ calls < MaxCalls
    /\ calls' = calls + 1
    /\ UNCHANGED loads
    /\ last' = Obs("reload", << >>, Empty, Empty, NoneValues, "None",
                   Result("raise", "NotImplementedError", Empty, EmptyDict,
                          "not_implemented", 0, FALSE), EmptyDict)
    /\ loader' = NoLoader
    /\ UNCHANGED <<strict, cache_by_default, langs, localizators,
                   localization_cache, disnake_localization_cache, first>>

\* FluentStore.reload(): raise NotImplementedError
Reload ==
    /\ calls < MaxCalls
    /\ calls' = calls + 1
    /\ UNCHANGED loads
    /\ last' = Obs("reload", << >>, Empty, Empty, NoneValues, "None",
                   Result("raise", "NotImplementedError", Empty, EmptyDict,
                          "not_implemented", 0, FALSE), EmptyDict)
    /\ UNCHANGED <<strict, cache_by_default, loader, langs, localizators,
                   localization_cache, disnake_localization_cache, first>>

DoL10n == \E key \in Keys, locale \in Locales, cache \in CacheArgs :
              \E values \in ValuesFor(key) : L10nCall(key, locale, values, cache)

DoGet == \E key \in Keys : GetCall(key)

DoLoad == \E path \in LoadPaths :
              \E order \in (IF IsDir(path) THEN ListingsOf(search_languages(path))
                            ELSE {<< >>}) :
                  Load(path, order)

Next == DoL10n \/ DoGet \/ DoLoad \/ Reload

Spec == Init /\ [][Next]_vars

---------------------------------------------------------------------------
(* Properties                                                              *)

\* A load has completed: self._loader is set.
Loaded == ~loader.isNone

\* The call was made with caching enabled.
Caching(cache) == cache = "True" \/ (cache = "None" /\ cache_by_default)

\* The cache key of the last l10n call.
LastCacheKey == last.key \o S(":") \o last.locale \o S(":") \o StrOfValues(last.values)

\* The string cache holds a usable (non-empty) entry for the last l10n call.
LastEntryHeld ==
    LastCacheKey \in DOMAIN localization_cache /\ localization_cache[LastCacheKey] # Empty

\* The strings the latest load registered its languages under.
LangSet == {StrOfPath(langs[i]) : i \in DOMAIN langs}

\* The directory the store was loaded from last.
LoadedRoot == LET p == PartsOfStr(loader.root) IN SubSeq(p, 1, Len(p) - 1)

\* A resource file of the directory defines the message.
DirHasMessage(dir, key) == \E f \in GlobFtl(dir) : HasMessage(f, key)

\* The pattern of the message in the directory's resource files.
DirPattern(dir, key) ==
    Files[CHOOSE f \in GlobFtl(dir) : HasMessage(f, key)][key[1]]

\* Some bundle of the localizator's fallback chain has the message.
ChainHasMessage(localizator, key) ==
    \E i \in DOMAIN localizator.locales :
        \E f \in ResourceFiles(localizator, localizator.locales[i]) : HasMessage(f, key)

\* C1: on a store on which no load has completed, get and l10n raise the
\* not-initialized RuntimeError and both caches stay as constructed (empty).
C1_NotInitialized ==
    loader.isNone =>
        /\ last.op \in {"get", "l10n"} =>
              /\ last.outcome = "raise"
              /\ last.exc = "RuntimeError"
              /\ last.branch = "not_initialized"
        /\ localization_cache = EmptyDict
        /\ disnake_localization_cache = EmptyDict

\* A lookup on a store whose only load failed on an invalid path.
C1_Witness ==
    /\ loader.isNone
    /\ loads > 0
    /\ calls = MaxCalls
    /\ last.op = "l10n"
    /\ last.cache = "True"
    /\ last.outcome = "raise"

\* C2 (as claimed): for a key that the default locale's directory defines and
\* the directory of another locale L of the loaded root does not, l10n(key, L,
\* values) returns the default locale's rendering of key with values.
C2_Fallback ==
    (/\ last.op = "l10n"
     /\ Loaded
     /\ last.locale # default_language
     /\ Append(LoadedRoot, last.locale) \in Dirs
     /\ DirHasMessage(Append(LoadedRoot, default_language), last.key)
     /\ ~DirHasMessage(Append(LoadedRoot, last.locale), last.key))
    => /\ last.outcome = "return"
       /\ last.value = FormatPattern(
              DirPattern(Append(LoadedRoot, default_language), last.key),
              ValuesOrEmpty(last.values))

\* The last l10n call asked, on a loaded store, for a key that no bundle of
\* the fallback chain of its locale's formatter has.
LastKeyMissing ==
    /\ last.op = "l10n"
    /\ Loaded
    /\ last.locale \in DOMAIN localizators
    /\ ~ChainHasMessage(localizators[last.locale], last.key)

\* What l10n does for a missing key: the placeholder, or the error if strict.
LastMissingOutcome ==
    IF strict
    THEN last.outcome = "raise" /\ last.exc = "LocalizationKeyError"
    ELSE last.outcome = "return" /\ last.value = default_message /\ last.warned

\* C3 (as claimed): for a key absent from the whole fallback chain l10n returns
\* default_message when strict is False and raises LocalizationKeyError when
\* strict is True, whatever the cache setting and the calls made before.
C3_MissingKey == LastKeyMissing => LastMissingOutcome

\* C3 (amended): the same outcome whenever the call does not hit the string
\* cache; with caching on and a non-empty entry under its cache key, the call
\* returns that entry.
C3_MissingKeyUnlessCached ==
    LastKeyMissing =>
        IF Caching(last.cache) /\ LastEntryHeld
        THEN last.outcome = "return" /\ last.value = localization_cache[LastCacheKey]
        ELSE LastMissingOutcome

\* A strict store raises for a missing key asked for with caching on.
C3_Witness ==
    /\ LastKeyMissing
    /\ strict
    /\ last.cache = "True"
    /\ ~LastEntryHeld
    /\ last.outcome = "raise"

\* The arguments of the last l10n call.
LastArgs == <<last.key, last.locale, last.values>>

\* The last call was an l10n call with caching enabled that returned, and is
\* not the first such call for its arguments or is that first call.
LastCachingReturn ==
    /\ last.op = "l10n"
    /\ Caching(last.cache)
    /\ last.outcome = "return"
    /\ LastArgs \in DOMAIN first

\* C4 (as claimed): with caching enabled every l10n call returns the value the
\* first call with the same arguments returned, whatever that value was.
C4_Idempotent == LastCachingReturn => last.value = first[LastArgs].value

\* C4 (amended): with caching enabled every l10n call returns the value the
\* first call with the same arguments returned, when that value was a
\* non-empty string found by the formatter or taken from the string cache; the
\* placeholder and the empty rendering are not memoized.
C4_IdempotentWhenFound ==
    (/\ LastCachingReturn
     /\ first[LastArgs].branch \in {"found", "cached"}
     /\ first[LastArgs].value # Empty)
    => last.value = first[LastArgs].value

\* A repeated call answered from the string cache although the formatter the
\* locale has now renders the key differently.
C4_Witness ==
    /\ LastCachingReturn
    /\ first[LastArgs].branch = "found"
    /\ last.branch = "cached"
    /\ last.locale \in DOMAIN localizators
    /\ format_value(localizators[last.locale], last.key, ValuesOrEmpty(last.values))
           # last.value

\* C5 (as claimed): every get(key) that returns on a loaded store returns a
\* mapping whose key set is exactly the set of locales load discovered.
C5_KeySet ==
    (last.op = "get" /\ Loaded /\ last.outcome = "return")
        => DOMAIN last.localizations = LangSet

\* C5 (amended): a mapping that get computes has exactly the locales of the
\* latest load as its key set and is stored as computed; a mapping taken from
\* the all-locales cache is the stored one, and a stored non-empty mapping is
\* never changed, so its key set is the locale set of the load in effect when
\* it was computed, also after a later load discovered other locales.
C5_KeySetAsComputed ==
    [][/\ \A k \in DOMAIN disnake_localization_cache :
             /\ k \in DOMAIN disnake_localization_cache'
             /\ disnake_localization_cache[k] # EmptyDict
                   => disnake_localization_cache'[k] = disnake_localization_cache[k]
       /\ (calls' # calls /\ last'.op = "get" /\ last'.outcome = "return") =>
             /\ last'.branch = "computed" =>
                   /\ DOMAIN last'.localizations = LangSet
                   /\ disnake_localization_cache'[last'.key] = last'.localizations
             /\ last'.branch = "cached" =>
                   last'.localizations = disnake_localization_cache[last'.key]
             /\ last'.branch \in {"computed", "cached"}]_vars

\* A get answered from the all-locales cache after a second load discovered a
\* different set of locales.
C5_Witness ==
    /\ last.op = "get"
    /\ last.outcome = "return"
    /\ last.branch = "cached"
    /\ loads = 2
    /\ DOMAIN last.localizations # LangSet
    /\ DOMAIN last.localizations # {}

\* C6 (as claimed): a get(key) that directly follows a get(key) that returned
\* returns the same mapping from the all-locales cache and invokes no
\* formatter, whatever cache_by_default is.
C6_Memoized ==
    [][(/\ calls' # calls
        /\ last'.op = "get"
        /\ last.op = "get"
        /\ last.outcome = "return"
        /\ last'.key = last.key)
       => /\ last'.outcome = "return"
          /\ last'.branch = "cached"
          /\ last'.formats = 0
          /\ last'.localizations = last.localizations]_vars

\* C6 (amended): a get(key) for which the all-locales cache holds a non-empty
\* mapping returns that mapping from the cache, invokes no formatter and
\* leaves both caches as they are, whatever cache_by_default is; an empty
\* mapping (no locale discovered) is not memoized: the get that directly
\* follows builds a new empty mapping, still without invoking a formatter.
C6_MemoizedNonEmpty ==
    [][(calls' # calls /\ last'.op = "get" /\ Loaded) =>
          /\ (/\ last'.key \in DOMAIN disnake_localization_cache
              /\ disnake_localization_cache[last'.key] # EmptyDict)
             => /\ last'.outcome = "return"
                /\ last'.branch = "cached"
                /\ last'.formats = 0
                /\ last'.localizations = disnake_localization_cache[last'.key]
                /\ UNCHANGED <<localization_cache, disnake_localization_cache>>
          /\ (/\ last.op = "get"
              /\ last.outcome = "return"
              /\ last'.key = last.key
              /\ last.localizations = EmptyDict)
             => /\ last'.outcome = "return"
                /\ last'.branch = "computed"
                /\ last'.formats = 0
                /\ last'.localizations = EmptyDict]_vars

\* A second get answered from the all-locales cache on a store that does not
\* cache by default.
C6_Witness ==
    /\ last.op = "get"
    /\ last.branch = "cached"
    /\ last.formats = 0
    /\ ~cache_by_default
    /\ loads = 1
    /\ calls = 2
    /\ last.localizations # EmptyDict

\* The key of the last get has no message in the fallback chain of any
\* language of the loaded store.
NothingToReport ==
    \A l \in LangSet :
        l \in DOMAIN localizators /\ ~ChainHasMessage(localizators[l], last.key)

\* C7 (as claimed): get(key) for a key that no language has a message for
\* returns None and does not raise, with strict False and with strict True.
C7_GetNone ==
    (last.op = "get" /\ Loaded /\ NothingToReport)
        => last.outcome = "return" /\ last.none

\* C8 (as claimed): with strict True, l10n for a locale that has no formatter
\* raises LocalizationKeyError.
C8_StrictLocale ==
    (last.op = "l10n" /\ Loaded /\ strict /\ last.locale \notin DOMAIN localizators)
        => last.outcome = "raise" /\ last.exc = "LocalizationKeyError"

\* C9 (as claimed): l10n for a locale that has no formatter warns and returns
\* default_message, strict or not, invokes no formatter and writes no cache.
C9_NoFormatter ==
    [][(/\ calls' # calls
        /\ last'.op = "l10n"
        /\ Loaded
        /\ last'.locale \notin DOMAIN localizators)
       => /\ last'.outcome = "return"
          /\ last'.value = default_message
          /\ last'.warned
          /\ last'.formats = 0
          /\ UNCHANGED <<localization_cache, disnake_localization_cache>>]_vars

\* C10: load of a path that is missing or is no directory raises RuntimeError
\* and leaves the loader, the languages, the formatters and both caches as
\* they were.
C10_InvalidPath ==
    [][(loads' # loads /\ last'.path \notin Dirs)
       => /\ last'.op = "load"
          /\ last'.outcome = "raise"
          /\ last'.exc = "RuntimeError"
          /\ UNCHANGED <<loader, langs, localizators, localization_cache,
                         disnake_localization_cache>>]_vars

\* A failed load on a loaded store whose caches are populated.
C10_Witness ==
    /\ last.op = "load"
    /\ last.outcome = "raise"
    /\ Loaded
    /\ langs # << >>
    /\ localization_cache # EmptyDict
    /\ loads = 2

\* C11: reload raises NotImplementedError in every state of the store,
\* unloaded or loaded, with empty or populated caches, and leaves the loader,
\* the languages, the formatters and both caches as they were.
C11_Reload ==
    [][(calls' # calls /\ last'.op = "reload")
       => /\ last'.outcome = "raise"
          /\ last'.exc = "NotImplementedError"
          /\ UNCHANGED <<loader, langs, localizators, localization_cache,
                         disnake_localization_cache>>]_vars

\* A reload on a loaded store whose two caches are populated.
C11_Witness ==
    /\ last.op = "reload"
    /\ last.outcome = "raise"
    /\ Loaded
    /\ localizators # EmptyDict
    /\ localization_cache # EmptyDict
    /\ disnake_localization_cache # EmptyDict

\* The names of the immediate subdirectories of a directory.
SubdirNames(dir) == {d[Len(d)] : d \in {c \in Iterdir(dir) : IsDir(c)}}

\* C12 (as claimed): after load(root) has returned, for a root of any number
\* of path components, the languages search_languages returned are exactly the
\* names of root's immediate subdirectories, one path component each, and a
\* formatter is registered under each such name.
C12_SubdirNames ==
    (last.op = "load" /\ last.outcome = "return") =>
        /\ LangSet = SubdirNames(last.path)
        /\ \A i \in DOMAIN langs : Len(langs[i]) = 1
        /\ \A n \in SubdirNames(last.path) : n \in DOMAIN localizators

\* C13: in every l10n call on a loaded store the effective caching flag is
\* the cache argument when it is True or False and cache_by_default when it is
\* omitted.  With the flag False the call returns nothing from the string
\* cache (a rendering that is found is the formatter's) and leaves the string
\* cache as it was, also when an entry for its arguments exists; with the
\* flag True a usable entry is returned, and a rendering that is found is
\* stored under the cache key of the call.
C13_CacheFlag ==
    [][(calls' # calls /\ last'.op = "l10n" /\ Loaded) =>
          LET ck == last'.key \o S(":") \o last'.locale \o S(":")
                        \o StrOfValues(last'.values)
              held == ck \in DOMAIN localization_cache /\ localization_cache[ck] # Empty
          IN  /\ ~Caching(last'.cache) =>
                    /\ last'.branch # "cached"
                    /\ UNCHANGED localization_cache
                    /\ last'.branch = "found" =>
                          last'.value = format_value(localizators[last'.locale],
                                            last'.key, ValuesOrEmpty(last'.values))
              /\ (Caching(last'.cache) /\ held) =>
                    /\ last'.branch = "cached"
                    /\ last'.value = localization_cache[ck]
              /\ (Caching(last'.cache) /\ last'.branch = "found") =>
                    localization_cache' = Put(localization_cache, ck, last'.value)]_vars

\* A call with cache=False on a store that caches by default, while the
\* string cache holds another value for the same arguments.
C13_Witness ==
    /\ last.op = "l10n"
    /\ last.cache = "False"
    /\ cache_by_default
    /\ LastEntryHeld
    /\ last.branch = "found"
    /\ last.value # localization_cache[LastCacheKey]

\* What an l10n call (the step's last') does when it treats its key as not
\* found: the placeholder with a warning, or the error if strict.
NextMissingOutcome ==
    /\ last'.branch = "not_found"
    /\ IF strict
       THEN last'.outcome = "raise" /\ last'.exc = "LocalizationKeyError"
       ELSE last'.outcome = "return" /\ last'.value = default_message /\ last'.warned

\* The l10n call of the step is made on a loaded store for a locale that has
\* a formatter, and the formatter renders the key as the key itself.
NextRendersAsKey ==
    /\ calls' # calls
    /\ last'.op = "l10n"
    /\ Loaded
    /\ last'.locale \in DOMAIN localizators
    /\ format_value(localizators[last'.locale], last'.key,
                    ValuesOrEmpty(last'.values)) = last'.key

\* C14 (as claimed): whenever the formatter's rendering equals the key, l10n
\* treats the key as not found (the placeholder with a warning, or the error
\* when strict) and the string cache stays as it was.
C14_Sentinel ==
    [][NextRendersAsKey =>
          (NextMissingOutcome /\ UNCHANGED localization_cache)]_vars

\* C14 (amended): the same whenever the call does not hit the string cache;
\* with caching on and a non-empty entry under its cache key the formatter is
\* not asked and the entry is returned.  In both cases the string cache stays
\* as it was.
C14_SentinelUnlessCached ==
    [][NextRendersAsKey =>
          LET ck == last'.key \o S(":") \o last'.locale \o S(":")
                        \o StrOfValues(last'.values)
          IN  /\ UNCHANGED localization_cache
              /\ IF /\ Caching(last'.cache)
                    /\ ck \in DOMAIN localization_cache
                    /\ localization_cache[ck] # Empty
                 THEN /\ last'.outcome = "return"
                      /\ last'.branch = "cached"
                      /\ last'.value = localization_cache[ck]
                 ELSE NextMissingOutcome]_vars

\* A message that exists and renders as its own id is reported as not found,
\* with caching on.
C14_Witness ==
    /\ last.op = "l10n"
    /\ Loaded
    /\ last.key = S("same")
    /\ last.locale = default_language
    /\ last.locale \in DOMAIN localizators
    /\ ChainHasMessage(localizators[last.locale], last.key)
    /\ last.cache = "True"
    /\ last.branch = "not_found"
    /\ last.value = default_message
    /\ localization_cache = EmptyDict

C16_StrictGet ==
    [][/\ (/\ calls' # calls
           /\ last'.op = "get"
           /\ last'.outcome = "raise"
           /\ last'.exc = "LocalizationKeyError") =>
             /\ strict
             /\ UNCHANGED disnake_localization_cache
             /\ \/ last'.key \notin DOMAIN disnake_localization_cache'
                \/ disnake_localization_cache'[last'.key] = EmptyDict
       /\ (/\ calls' # calls
           /\ last'.op = "get"
           /\ last.op = "get"
           /\ last.exc = "LocalizationKeyError"
           /\ last'.key = last.key) =>
             last'.branch = "computed"]_vars

\* A strict get that fails on its second language, after the first one was
\* localized and cached in the string cache.
C16_Witness ==
    /\ last.op = "get"
    /\ strict
    /\ last.outcome = "raise"
    /\ last.exc = "LocalizationKeyError"
    /\ last.formats = 2
    /\ localization_cache # EmptyDict
    /\ last.key \notin DOMAIN disnake_localization_cache

\* The cache key of the l10n call of the step.
NextCacheKey ==
    last'.key \o S(":") \o last'.locale \o S(":") \o StrOfValues(last'.values)

\* C17 (as claimed): a successful load keeps every registered locale and
\* both caches; in the call that follows it, every entry of the string cache
\* is still present and returned by l10n with caching, and every entry of the
\* all-locales cache is still present and returned by get.
C17_LoadKeepsAll ==
    [][/\ (loads' # loads /\ last'.outcome = "return") =>
             /\ \A l \in DOMAIN localizators : l \in DOMAIN localizators'
             /\ UNCHANGED <<localization_cache, disnake_localization_cache>>
       /\ (calls' # calls /\ last.op = "load" /\ last.outcome = "return") =>
             /\ (/\ last'.op = "l10n"
                 /\ Caching(last'.cache)
                 /\ NextCacheKey \in DOMAIN localization_cache) =>
                   /\ last'.outcome = "return"
                   /\ last'.value = localization_cache[NextCacheKey]
                   /\ UNCHANGED localization_cache
             /\ (/\ last'.op = "get"
                 /\ last'.key \in DOMAIN disnake_localization_cache) =>
                   /\ last'.outcome = "return"
                   /\ last'.localizations = disnake_localization_cache[last'.key]
                   /\ UNCHANGED disnake_localization_cache]_vars

\* C17 (amended): a successful load leaves both caches as they were and
\* keeps every registered locale: a locale it discovers again gets a new
\* formatter bound to the new loader, every other locale keeps the formatter
\* it had.  No step removes an entry of either cache or changes a non-empty
\* one; a non-empty entry of the string cache is what l10n with caching
\* returns, and a non-empty mapping of the all-locales cache is what get
\* returns, before and after any later load.  An empty string and an empty
\* mapping stay in the caches but count as a miss and are computed anew.
C17_LoadKeepsNonEmpty ==
    [][/\ (loads' # loads /\ last'.outcome = "return") =>
             /\ \A l \in DOMAIN localizators :
                   /\ l \in DOMAIN localizators'
                   /\ l \notin LangSet' => localizators'[l] = localizators[l]
             /\ \A l \in LangSet' :
                   /\ l \in DOMAIN localizators'
                   /\ localizators'[l].resource_loader = loader'
             /\ UNCHANGED <<localization_cache, disnake_localization_cache>>
       /\ \A k \in DOMAIN localization_cache :
             /\ k \in DOMAIN localization_cache'
             /\ localization_cache[k] # Empty =>
                   localization_cache'[k] = localization_cache[k]
       /\ \A k \in DOMAIN disnake_localization_cache :
             /\ k \in DOMAIN disnake_localization_cache'
             /\ disnake_localization_cache[k] # EmptyDict =>
                   disnake_localization_cache'[k] = disnake_localization_cache[k]
       /\ (/\ calls' # calls
           /\ last'.op = "l10n"
           /\ Loaded
           /\ Caching(last'.cache)
           /\ NextCacheKey \in DOMAIN localization_cache
           /\ localization_cache[NextCacheKey] # Empty) =>
             /\ last'.outcome = "return"
             /\ last'.value = localization_cache[NextCacheKey]
       /\ (/\ calls' # calls
           /\ last'.op = "get"
           /\ Loaded
           /\ last'.key \in DOMAIN disnake_localization_cache
           /\ disnake_localization_cache[last'.key] # EmptyDict) =>
             /\ last'.outcome = "return"
             /\ last'.localizations = disnake_localization_cache[last'.key]]_vars

\* After a second load, get returns the mapping stored before it, which has
\* a locale the second load did not discover; that locale's formatter of the
\* first load is still registered and the string cache still has its entries.
C17_Witness ==
    /\ last.op = "get"
    /\ loads = 2
    /\ last.branch = "cached"
    /\ LangSet # {}
    /\ localization_cache # EmptyDict
    /\ \E l \in DOMAIN last.localizations :
          /\ l \notin LangSet
          /\ l \in DOMAIN localizators
          /\ localizators[l].resource_loader # loader

\* C18: once a load has completed, every step leaves the store loaded, and
\* no get or l10n call raises the not-initialized error.
C18_LoadedPermanent ==
    [][Loaded =>
          /\ ~loader'.isNone
          /\ (calls' # calls /\ last'.op \in {"get", "l10n"}) =>
                /\ last'.branch # "not_initialized"
                /\ last'.exc # "RuntimeError"]_vars

\* A lookup that fails for a missing key on a store that stays loaded after
\* two loads and an earlier call.
C18_Witness ==
    /\ Loaded
    /\ loads = 2
    /\ calls = 2
    /\ last.op \in {"get", "l10n"}
    /\ last.outcome = "raise"
    /\ last.exc = "LocalizationKeyError"

\* C19 (as claimed): a cache hit of l10n(key, locale, values) returns a string
\* that an earlier call with caching on rendered for that same key and that
\* same locale.
C19_NoSharedEntry ==
    (last.op = "l10n" /\ last.branch = "cached") =>
        \E a \in DOMAIN first :
            /\ a[1] = last.key
            /\ a[2] = last.locale
            /\ first[a].branch = "found"
            /\ first[a].value = last.value

====
